---- MODULE Spec2Model ----
(***************************************************************************)
(* The pipeline executor of src/parallel/pipeline_executor.cpp as a state  *)
(* machine.  One executor object drives one pipeline                       *)
(*     source -> operators[0..k-1] -> sink       (push mode)               *)
(*     source -> operators[0..k-1] -> caller     (pull mode)               *)
(* A DataChunk is a sequence of runs of consecutive rows; the source       *)
(* numbers the rows it produces 1, 2, 3, ... so every row has an identity. *)
(* C++ indices are 0-based; sequences here are 1-based, so                 *)
(*     pipeline.operators[i]   is  pipeline.operators[i+1]                 *)
(*     intermediate_chunks[i]  is  intermediate_chunks[i+1]                *)
(*     cached_chunks[i]        is  cached_chunks[i+1]                      *)
(* while current_idx, initial_idx and the entries of in_process_operators  *)
(* keep the values they have in the C++ code.                              *)
(***************************************************************************)
EXTENDS Integers, Sequences, FiniteSets, TLC

(***************************************************************************)
(* Constants of the build.                                                 *)
(***************************************************************************)
\* the vector width; 128 is the smallest width for which CacheChunk is
\* compiled in (#if STANDARD_VECTOR_SIZE >= 128)
STANDARD_VECTOR_SIZE == 128
\* outputs below this many rows are candidates for the cache
CACHE_THRESHOLD == 64
\* the width below which the body of CacheChunk is compiled out
CACHE_MIN_VECTOR_SIZE == 128

(***************************************************************************)
(* Bounds of the model.                                                    *)
(***************************************************************************)
\* the source (or the pushing caller) hands over at most this many chunks
MaxFetch == 2

(***************************************************************************)
(* DataChunk: a sequence of runs [lo, hi, pass]; the rows lo..hi in order. *)
(* pass is the value of the row the filter operators test.  Chunks are     *)
(* kept canonical: no empty run, adjacent runs never mergeable.            *)
(***************************************************************************)
EmptyChunk == <<>>

RunLen(r) == r.hi - r.lo + 1

RECURSIVE Size(_)
Size(chunk) ==
    IF chunk = <<>> THEN 0 ELSE RunLen(Head(chunk)) + Size(Tail(chunk))

Glue(chunk, r) ==
    IF chunk # <<>> /\ chunk[Len(chunk)].hi + 1 = r.lo /\ chunk[Len(chunk)].pass = r.pass
    THEN [chunk EXCEPT ![Len(chunk)].hi = r.hi]
    ELSE Append(chunk, r)

\* DataChunk::Append: the rows of other after the rows of chunk
RECURSIVE ChunkAppend(_, _)
ChunkAppend(chunk, other) ==
    IF other = <<>> THEN chunk ELSE ChunkAppend(Glue(chunk, Head(other)), Tail(other))

\* the first n rows of a chunk
RECURSIVE Take(_, _)
Take(chunk, n) ==
    IF n <= 0 \/ chunk = <<>> THEN <<>>
    ELSE IF RunLen(Head(chunk)) <= n
         THEN <<Head(chunk)>> \o Take(Tail(chunk), n - RunLen(Head(chunk)))
         ELSE <<[Head(chunk) EXCEPT !.hi = Head(chunk).lo + n - 1]>>

\* a chunk without its first n rows
RECURSIVE Drop(_, _)
Drop(chunk, n) ==
    IF n <= 0 \/ chunk = <<>> THEN chunk
    ELSE IF RunLen(Head(chunk)) <= n
         THEN Drop(Tail(chunk), n - RunLen(Head(chunk)))
         ELSE <<[Head(chunk) EXCEPT !.lo = Head(chunk).lo + n]>> \o Tail(chunk)

\* the rows of a chunk that pass the filter predicate, in order
PassingRows(chunk) == ChunkAppend(<<>>, SelectSeq(chunk, LAMBDA r : r.pass))

\* the set of rows of a chunk
Rows(chunk) == UNION {chunk[j].lo .. chunk[j].hi : j \in DOMAIN chunk}

\* the rows of a sequence of chunks, concatenated
RECURSIVE Flatten(_)
Flatten(chunks) ==
    IF chunks = <<>> THEN <<>> ELSE ChunkAppend(Head(chunks), Flatten(Tail(chunks)))

(***************************************************************************)
(* LogicalType and CanCacheType.                                           *)
(***************************************************************************)
T_INTEGER == [id |-> "INTEGER", children |-> <<>>]
T_VARCHAR == [id |-> "VARCHAR", children |-> <<>>]
T_LIST == [id |-> "LIST", children |-> <<T_INTEGER>>]
T_MAP == [id |-> "MAP", children |-> <<T_VARCHAR, T_INTEGER>>]
T_STRUCT(children) == [id |-> "STRUCT", children |-> children]

RECURSIVE CanCacheType(_)
CanCacheType(type) ==
    CASE type.id \in {"LIST", "MAP"} -> FALSE
      [] type.id = "STRUCT" ->
            \A j \in DOMAIN type.children : CanCacheType(type.children[j])
      [] OTHER -> TRUE

(***************************************************************************)
(* The operators, the source and the sink: the executor's environment.     *)
(* An operator is described by what GetTypes() and RequiresCache() return  *)
(* and by the kind of its Execute:                                         *)
(*   split   emits its input SplitPiece rows at a time, HAVE_MORE_OUTPUT   *)
(*           while rows remain                                             *)
(*           (a join or unnest that overflows one vector); its operator    *)
(*           state is the number of input rows already emitted             *)
(*   filter  emits the rows of the input that pass, NEED_MORE_INPUT        *)
(*   limit   passes the input on, or returns FINISHED with no output       *)
(***************************************************************************)
\* the number of rows a split operator emits per invocation
SplitPiece == 40

Split ==
    [kind |-> "split", piece |-> SplitPiece, requires_cache |-> TRUE,
     types |-> <<T_INTEGER>>]
\* a split operator whose pieces are too large for the cache to absorb
SplitWide ==
    [kind |-> "split", piece |-> CACHE_THRESHOLD, requires_cache |-> TRUE,
     types |-> <<T_INTEGER>>]
Filter ==
    [kind |-> "filter", requires_cache |-> TRUE,
     types |-> <<T_INTEGER, T_STRUCT(<<T_VARCHAR, T_INTEGER>>)>>]
SplitNested ==
    [kind |-> "split", piece |-> SplitPiece, requires_cache |-> TRUE,
     types |-> <<T_INTEGER, T_STRUCT(<<T_INTEGER, T_LIST>>)>>]
FilterPlain == [kind |-> "filter", requires_cache |-> FALSE, types |-> <<T_INTEGER>>]
Limit == [kind |-> "limit", requires_cache |-> TRUE, types |-> <<T_MAP>>]

\* the operator chains of the pipelines explored
OperatorChains ==
    { <<>>, <<Split>>, <<Filter>>, <<SplitNested>>, <<Split, Filter>>,
      <<Filter, Split>>, <<Split, Split>>, <<Split, Limit>>,
      <<FilterPlain, SplitNested>>, <<Split, SplitWide>>,
      <<SplitWide, Filter>> }

\* PhysicalOperator::Execute(context, input, chunk, state): the possible
\* [result, chunk, state] of one invocation
OperatorExecute(op, input, state) ==
    CASE op.kind = "split" ->
            LET rest == Drop(input, state) IN
            IF Size(rest) > op.piece
            THEN { [result |-> "HAVE_MORE_OUTPUT", chunk |-> Take(rest, op.piece),
                    state |-> state + op.piece] }
            ELSE { [result |-> "NEED_MORE_INPUT", chunk |-> rest, state |-> 0] }
      [] op.kind = "filter" ->
            { [result |-> "NEED_MORE_INPUT", chunk |-> PassingRows(input), state |-> state] }
      [] OTHER ->
            { [result |-> "NEED_MORE_INPUT", chunk |-> input, state |-> state],
              [result |-> "FINISHED", chunk |-> EmptyChunk, state |-> state] }

\* the shapes <<rows, passing rows>> of the chunks a source produces
SourceShapes == { <<128, 128>>, <<128, 40>>, <<40, 0>> }

\* the chunk of the given shape whose first row is row number first
SourceChunk(first, shape) ==
    (IF shape[2] > 0
     THEN <<[lo |-> first, hi |-> first + shape[2] - 1, pass |-> TRUE]>> ELSE <<>>)
    \o (IF shape[1] > shape[2]
        THEN <<[lo |-> first + shape[2], hi |-> first + shape[1] - 1, pass |-> FALSE]>>
        ELSE <<>>)

\* SinkResultType
SinkResults == {"NEED_MORE_INPUT", "FINISHED"}

\* Pipeline: {source, operators, sink}
Pipelines ==
    [ operators : OperatorChains,
      has_sink : BOOLEAN,
      sink_order_matters : BOOLEAN ]

(***************************************************************************)
(* State of one PipelineExecutor and of the call in progress.              *)
(***************************************************************************)
VARIABLES
    pipeline,              \* the Pipeline the executor was constructed for
    driver,                \* the entry point its owner uses to feed it
    intermediate_chunks,   \* intermediate_chunks[i+1]: input of operator i
    intermediate_states,   \* the operator states
    cached_chunks,         \* [present, chunk]: unique_ptr<DataChunk> per operator
    final_chunk,           \* output of the last operator (push mode)
    in_process_operators,  \* the stack, bottom first
    finished_processing,
    finalized,
    local_sink_state,      \* TRUE while the unique_ptr is set
    push_input,            \* the caller's chunk of ExecutePush
    pull_result,           \* the caller's chunk of ExecutePull
    pc,                    \* position of the call in progress
    frame,                 \* locals of the calls in progress
    interrupted,           \* context.client.interrupted
    executor_error,        \* pipeline.executor.HasError()
    source,                \* [fetched, next_row, exhausted] of the source
    build,                 \* "unknown", "debug" or "release"
    op_calls,              \* per operator: its last input and whether it has more output
    trace,                 \* history of the calls made to the environment
    \* the CheckpointManager and the storage it writes
    catalog,               \* the schemas of the database in memory
    block_manager,         \* [meta_block, blocks, free]: header, blocks on disk, allocator
    metadata_writer,       \* [open, block_id, data]: unique_ptr<MetaBlockWriter>
    tabledata_writer,      \* [open, block_id, data]
    checkpoint,            \* position and locals of CreateCheckpoint, and its history
    \* two ColumnDataCollections of the same types
    collections,           \* [a, b]: each [count, segments]
    collection_log         \* [appends, into, before]: chunks appended so far, and
                           \* for a Combine just made, its target and the state before

vars == <<pipeline, driver, intermediate_chunks, intermediate_states, cached_chunks,
          final_chunk, in_process_operators, finished_processing, finalized,
          local_sink_state, push_input, pull_result, pc, frame, interrupted,
          executor_error, source, build, op_calls, trace,
          catalog, block_manager, metadata_writer, tabledata_writer, checkpoint,
          collections, collection_log>>

vars_executor ==
    <<pipeline, driver, intermediate_chunks, intermediate_states, cached_chunks,
      final_chunk, in_process_operators, finished_processing, finalized,
      local_sink_state, push_input, pull_result, pc, frame, interrupted,
      executor_error, source, build, op_calls, trace>>

\* the state outside the pipeline executor
checkpoint_vars == <<catalog, block_manager, metadata_writer, tabledata_writer, checkpoint>>
collection_vars == <<collections, collection_log>>
outside_executor == <<checkpoint_vars, collection_vars>>

NumOps == Len(pipeline.operators)

\* PipelineExecutor::PipelineExecutor, lines 54-68: is cached_chunks[i] allocated
AllocatesCacheIgnoringOrder(p, i) ==
    /\ p.has_sink
    /\ p.operators[i].requires_cache
    /\ \A j \in DOMAIN p.operators[i].types : CanCacheType(p.operators[i].types[j])

AllocatesCache(p, i) ==
    /\ p.has_sink
    /\ ~p.sink_order_matters
    /\ p.operators[i].requires_cache
    /\ \A j \in DOMAIN p.operators[i].types : CanCacheType(p.operators[i].types[j])

NoFrame ==
    [ call |-> "none",          \* the public method running
      caller |-> "none",        \* who called ExecutePushInternal
      input |-> "none",         \* which chunk the input reference names
      initial_idx |-> 0,
      current_idx |-> 0,
      flush_idx |-> 0,          \* loop variable i of PushFinalize
      exec_result |-> "none",   \* value returned by Execute(input, result, initial_idx)
      push_result |-> "none",   \* value returned by ExecutePushInternal
      returned |-> "none",      \* the public method that returned last
      raised |-> "none" ]       \* exception the last call ended with

NoTrace ==
    [ produced |-> <<>>,        \* chunks handed over by the source or the pusher
      sunk |-> <<>>,            \* chunks passed to sink.Sink
      pulled |-> <<>>,          \* chunks returned by ExecutePull
      get_data |-> 0,           \* calls of source.GetData
      executes |-> 0,           \* calls of an operator's Execute
      combines |-> 0,           \* calls of sink.Combine
      after_combine |-> FALSE,  \* a Sink or Execute call was made after sink.Combine
      after_empty |-> FALSE,    \* GetData was called after it returned an empty chunk
      flushed |-> <<>>,         \* cache indices flushed by PushFinalize
      finished_seen |-> FALSE,  \* an operator or the sink returned FINISHED
      sink_finished |-> FALSE,  \* sink.Sink returned FINISHED
      reentry |-> {},           \* operators re-entered against another input
      absorbing |-> TRUE,       \* the last operator only had inputs of at least
                                \* CACHE_THRESHOLD rows and outputs below it
      asserted |-> {} ]         \* D_ASSERT conditions found false

ExecutorInit ==
    /\ pipeline \in Pipelines
    /\ driver \in IF pipeline.has_sink THEN {"Execute", "ExecutePush"} ELSE {"ExecutePull"}
    /\ pipeline.has_sink \/ ~pipeline.sink_order_matters
    /\ intermediate_chunks = [i \in 1..NumOps |-> EmptyChunk]
    /\ intermediate_states = [i \in 1..NumOps |-> 0]
    /\ cached_chunks = [i \in 1..NumOps |->
                           [present |-> AllocatesCache(pipeline, i), chunk |-> EmptyChunk]]
    /\ final_chunk = EmptyChunk
    /\ in_process_operators = <<>>
    /\ finished_processing = FALSE
    /\ finalized = FALSE
    /\ local_sink_state = pipeline.has_sink
    /\ push_input = EmptyChunk
    /\ pull_result = EmptyChunk
    /\ pc = "idle"
    /\ frame = NoFrame
    /\ interrupted = FALSE
    /\ executor_error = FALSE
    /\ source = [fetched |-> 0, next_row |-> 1, exhausted |-> FALSE]
    /\ build = "unknown"
    /\ op_calls = [i \in 1..NumOps |-> [pending |-> FALSE, input |-> EmptyChunk]]
    /\ trace = NoTrace

(***************************************************************************)
(* Helpers shared by the actions.                                          *)
(***************************************************************************)
\* the DataChunk the reference `result` of Execute names: final_chunk in
\* push mode (line 104), the caller's chunk in pull mode (line 203)
ResultChunk == IF pipeline.has_sink THEN final_chunk ELSE pull_result

\* the DataChunk the reference `input` names, given the chunks' values
InputOf(ref, flush_idx, ic, fc, pr, cc) ==
    CASE ref = "source" ->
            IF NumOps = 0 THEN (IF pipeline.has_sink THEN fc ELSE pr) ELSE ic[1]
      [] ref = "pushed" -> push_input
      [] ref = "cache" -> cc[flush_idx + 1].chunk
      [] OTHER -> EmptyChunk

InputChunk ==
    InputOf(frame.input, frame.flush_idx, intermediate_chunks, final_chunk,
            pull_result, cached_chunks)

\* a D_ASSERT: a debug build stops at a false condition, a release build
\* does not evaluate it.  The build is fixed at the first false condition.
Builds(ok) == IF ok \/ build # "unknown" THEN {build} ELSE {"debug", "release"}

\* the exception that leaves the public method: ExecutePull replaces it by
\* the executor's stored one if there is one (lines 206-216)
Thrown(exception) ==
    IF frame.call = "ExecutePull" /\ executor_error THEN "executor" ELSE exception

\* GoToSource, lines 227-236
GoToSource(stack, initial_idx) ==
    IF stack # <<>>
    THEN [current_idx |-> stack[Len(stack)], stack |-> SubSeq(stack, 1, Len(stack) - 1)]
    ELSE [current_idx |-> initial_idx, stack |-> stack]

\* CacheChunk, lines 168-187: the current chunk and the cache afterwards
CacheChunkDroppingRows(prev_chunk, current_chunk, cache) ==
    IF /\ STANDARD_VECTOR_SIZE >= CACHE_MIN_VECTOR_SIZE
       /\ cache.present
       /\ Size(prev_chunk) >= CACHE_THRESHOLD
       /\ Size(current_chunk) < CACHE_THRESHOLD
    THEN IF Size(ChunkAppend(cache.chunk, current_chunk))
                >= STANDARD_VECTOR_SIZE - CACHE_THRESHOLD
         THEN [current_chunk |-> current_chunk,
               cache |-> [present |-> TRUE, chunk |-> EmptyChunk]]
         ELSE [current_chunk |-> EmptyChunk,
               cache |-> [present |-> TRUE,
                          chunk |-> ChunkAppend(cache.chunk, current_chunk)]]
    ELSE [current_chunk |-> current_chunk, cache |-> cache]

\* line 176: chunk cache full
CacheFullAlways(chunk_cache) == TRUE

CacheFullAtVectorSize(chunk_cache) == Size(chunk_cache) >= STANDARD_VECTOR_SIZE

CacheFull(chunk_cache) == Size(chunk_cache) >= STANDARD_VECTOR_SIZE - CACHE_THRESHOLD

CacheChunk(prev_chunk, current_chunk, cache) ==
    IF /\ STANDARD_VECTOR_SIZE >= CACHE_MIN_VECTOR_SIZE
       /\ cache.present
       /\ Size(prev_chunk) >= CACHE_THRESHOLD
       /\ Size(current_chunk) < CACHE_THRESHOLD
    THEN IF CacheFull(ChunkAppend(cache.chunk, current_chunk))
         THEN \* current_chunk.Move(chunk_cache); chunk_cache.Initialize(...)
              [current_chunk |-> ChunkAppend(cache.chunk, current_chunk),
               cache |-> [present |-> TRUE, chunk |-> EmptyChunk]]
         ELSE \* current_chunk.Reset()
              [current_chunk |-> EmptyChunk,
               cache |-> [present |-> TRUE,
                          chunk |-> ChunkAppend(cache.chunk, current_chunk)]]
    ELSE [current_chunk |-> current_chunk, cache |-> cache]

\* FetchFromSource -> source->GetData: the chunks the source may return
GetData ==
    {EmptyChunk} \cup
    IF source.exhausted \/ source.fetched >= MaxFetch THEN {}
    ELSE { SourceChunk(source.next_row, shape) : shape \in SourceShapes }

\* the source after returning chunk
SourceAfter(chunk) ==
    [fetched |-> source.fetched + (IF chunk = EmptyChunk THEN 0 ELSE 1),
     next_row |-> source.next_row + Size(chunk),
     exhausted |-> source.exhausted \/ chunk = EmptyChunk]

(***************************************************************************)
(* Leaving a call.                                                         *)
(***************************************************************************)
\* an exception leaves the public method in progress; the executor is dropped
Throw(exception) ==
    /\ pc' = "dead"
    /\ frame' = [frame EXCEPT !.raised = Thrown(exception)]

\* a D_ASSERT stops a debug build
Abort ==
    /\ pc' = "dead"
    /\ frame' = [frame EXCEPT !.raised = "assertion"]

\* ScopedOperatorProfiler::StartOperator, lines 16-19: does entering a span throw
StartOperatorNeverThrows == FALSE

StartOperatorThrows == interrupted

\* trace of one more call of Sink or of an operator's Execute
Called(tr) == [tr EXCEPT !.after_combine = @ \/ tr.combines > 0]

SetResult(chunk) ==
    IF pipeline.has_sink
    THEN final_chunk' = chunk /\ UNCHANGED pull_result
    ELSE pull_result' = chunk /\ UNCHANGED final_chunk

(***************************************************************************)
(* OperatorResultType Execute(input, result, initial_idx), lines 240-314.  *)
(***************************************************************************)
\* lines 241-254: up to the loop
ExecuteBegin ==
    /\ pc = "E_entry"
    /\ LET g == GoToSource(in_process_operators, frame.initial_idx)
           ok == g.current_idx >= frame.initial_idx
           first == IF g.current_idx = frame.initial_idx
                    THEN g.current_idx + 1 ELSE g.current_idx
       IN IF Size(InputChunk) = 0
          THEN /\ pc' = "E_ret"
               /\ frame' = [frame EXCEPT !.exec_result = "NEED_MORE_INPUT"]
               /\ UNCHANGED <<in_process_operators, final_chunk, pull_result, build, trace>>
          ELSE \E b \in Builds(ok) :
                 /\ build' = b
                 /\ trace' = IF ok THEN trace
                             ELSE [trace EXCEPT !.asserted = @ \cup {"GoToSource"}]
                 /\ in_process_operators' = g.stack
                 /\ IF ~ok /\ b = "debug"
                    THEN Abort /\ UNCHANGED <<final_chunk, pull_result>>
                    ELSE IF first > NumOps
                    THEN \* result.Reference(input)
                         /\ SetResult(InputChunk)
                         /\ pc' = "E_ret"
                         /\ frame' = [frame EXCEPT !.current_idx = first,
                                                   !.exec_result = "NEED_MORE_INPUT"]
                    ELSE /\ pc' = "E_loop"
                         /\ frame' = [frame EXCEPT !.current_idx = first]
                         /\ UNCHANGED <<final_chunk, pull_result>>
    /\ UNCHANGED <<outside_executor, pipeline, driver, intermediate_chunks, intermediate_states,
                   cached_chunks, finished_processing, finalized, local_sink_state,
                   push_input, interrupted, executor_error, source, op_calls>>

\* lines 255-312: one iteration of the loop
ExecuteIteration ==
    /\ pc = "E_loop"
    /\ IF interrupted \/ StartOperatorThrows
       THEN /\ Throw("interrupt")
            /\ UNCHANGED <<intermediate_chunks, intermediate_states, cached_chunks,
                           final_chunk, pull_result, in_process_operators, build,
                           op_calls, trace>>
       ELSE
       LET c == frame.current_idx
           n0 == frame.initial_idx
           to_result == c >= NumOps
           \* current_chunk.Reset()
           ic1 == IF to_result THEN intermediate_chunks
                  ELSE [intermediate_chunks EXCEPT ![c + 1] = EmptyChunk]
           fc1 == IF to_result /\ pipeline.has_sink THEN EmptyChunk ELSE final_chunk
           pr1 == IF to_result /\ ~pipeline.has_sink THEN EmptyChunk ELSE pull_result
       IN
       IF c = n0
       THEN \* we went back to the source: we need more input
            /\ intermediate_chunks' = ic1
            /\ final_chunk' = fc1
            /\ pull_result' = pr1
            /\ pc' = "E_ret"
            /\ frame' = [frame EXCEPT !.exec_result = "NEED_MORE_INPUT"]
            /\ UNCHANGED <<intermediate_states, cached_chunks, in_process_operators,
                           build, op_calls, trace>>
       ELSE
       LET prev_chunk == IF c = n0 + 1
                         THEN InputOf(frame.input, frame.flush_idx, ic1, fc1, pr1,
                                      cached_chunks)
                         ELSE ic1[c]
       IN
       \E out \in OperatorExecute(pipeline.operators[c], prev_chunk, intermediate_states[c]) :
       LET stack1 == IF out.result = "HAVE_MORE_OUTPUT"
                     THEN Append(in_process_operators, c) ELSE in_process_operators
           cached == IF out.result = "FINISHED"
                     THEN [current_chunk |-> out.chunk, cache |-> cached_chunks[c]]
                     ELSE CacheChunk(prev_chunk, out.chunk, cached_chunks[c])
           current_chunk == cached.current_chunk
           g == GoToSource(stack1, n0)
           back == out.result # "FINISHED" /\ Size(current_chunk) = 0 /\ c # n0
           ok == ~back \/ g.current_idx >= n0
           tr1 == [Called(trace) EXCEPT
                     !.executes = @ + 1,
                     !.finished_seen = @ \/ out.result = "FINISHED",
                     !.absorbing = @ /\ (c = NumOps =>
                                            /\ Size(prev_chunk) >= CACHE_THRESHOLD
                                            /\ Size(out.chunk) < CACHE_THRESHOLD),
                     !.reentry = @ \cup
                        (IF op_calls[c].pending /\ op_calls[c].input # prev_chunk
                         THEN {<<c, "changed">>} ELSE {})
                        \cup
                        (IF ~op_calls[c].pending /\ prev_chunk # EmptyChunk
                            /\ op_calls[c].input = prev_chunk
                         THEN {<<c, "repeated">>} ELSE {}),
                     !.asserted = IF ok THEN @ ELSE @ \cup {"GoToSource"}]
       IN
       /\ intermediate_states' = [intermediate_states EXCEPT ![c] = out.state]
       /\ op_calls' = [op_calls EXCEPT ![c] =
                          [pending |-> out.result = "HAVE_MORE_OUTPUT", input |-> prev_chunk]]
       /\ cached_chunks' = [cached_chunks EXCEPT ![c] = cached.cache]
       /\ intermediate_chunks' = IF to_result THEN ic1
                                 ELSE [ic1 EXCEPT ![c + 1] = current_chunk]
       /\ final_chunk' = IF to_result /\ pipeline.has_sink THEN current_chunk ELSE fc1
       /\ pull_result' = IF to_result /\ ~pipeline.has_sink THEN current_chunk ELSE pr1
       /\ trace' = tr1
       /\ \E b \in Builds(ok) :
            /\ build' = b
            /\ IF out.result = "FINISHED"
               THEN /\ in_process_operators' = stack1
                    /\ pc' = "E_ret"
                    /\ frame' = [frame EXCEPT !.exec_result = "FINISHED"]
               ELSE IF Size(current_chunk) = 0
               THEN IF c = n0
                    THEN /\ in_process_operators' = stack1
                         /\ pc' = "E_ret"
                         /\ frame' = [frame EXCEPT !.exec_result =
                                         IF stack1 = <<>> THEN "NEED_MORE_INPUT"
                                         ELSE "HAVE_MORE_OUTPUT"]
                    ELSE \* GoToSource(current_idx, initial_idx); continue
                         /\ in_process_operators' = g.stack
                         /\ IF ~ok /\ b = "debug"
                            THEN Abort
                            ELSE /\ pc' = "E_loop"
                                 /\ frame' = [frame EXCEPT !.current_idx = g.current_idx]
               ELSE /\ in_process_operators' = stack1
                    /\ IF c + 1 > NumOps
                       THEN /\ pc' = "E_ret"
                            /\ frame' = [frame EXCEPT
                                           !.current_idx = c + 1,
                                           !.exec_result =
                                              IF stack1 = <<>> THEN "NEED_MORE_INPUT"
                                              ELSE "HAVE_MORE_OUTPUT"]
                       ELSE /\ pc' = "E_loop"
                            /\ frame' = [frame EXCEPT !.current_idx = c + 1]
    /\ UNCHANGED <<outside_executor, pipeline, driver, finished_processing, finalized, local_sink_state,
                   push_input, interrupted, executor_error, source>>

(***************************************************************************)
(* ExecutePushInternal(input, initial_idx), lines 95-126.                  *)
(***************************************************************************)
\* line 112: is sink_chunk offered to the sink
ShouldSinkFullOnly(sink_chunk) == Size(sink_chunk) >= CACHE_THRESHOLD

ShouldSinkAlways(sink_chunk) == TRUE

ShouldSink(sink_chunk) == Size(sink_chunk) > 0

\* lines 111-123: offer sink_chunk to the sink, then return or loop;
\* result is the local variable of that name
SinkAndContinue(result) ==
    LET sink_chunk == IF NumOps = 0 THEN InputChunk ELSE final_chunk IN
    IF ShouldSink(sink_chunk)
    THEN IF StartOperatorThrows
         THEN Throw("interrupt") /\ UNCHANGED trace
         ELSE \E sink_result \in SinkResults :
                /\ trace' = [Called(trace) EXCEPT
                               !.sunk = Append(@, sink_chunk),
                               !.finished_seen = @ \/ sink_result = "FINISHED",
                               !.sink_finished = @ \/ sink_result = "FINISHED"]
                /\ IF sink_result = "FINISHED"
                   THEN /\ pc' = "EPI_ret"
                        /\ frame' = [frame EXCEPT !.push_result = "FINISHED"]
                   ELSE IF result = "NEED_MORE_INPUT"
                   THEN /\ pc' = "EPI_ret"
                        /\ frame' = [frame EXCEPT !.push_result = "NEED_MORE_INPUT"]
                   ELSE /\ pc' = "EPI_loop"
                        /\ UNCHANGED frame
    ELSE /\ UNCHANGED trace
         /\ IF result = "NEED_MORE_INPUT"
            THEN /\ pc' = "EPI_ret"
                 /\ frame' = [frame EXCEPT !.push_result = "NEED_MORE_INPUT"]
            ELSE /\ pc' = "EPI_loop"
                 /\ UNCHANGED frame

\* lines 97-99
ExecutePushInternalBegin ==
    /\ pc = "EPI_entry"
    /\ IF Size(InputChunk) = 0
       THEN /\ pc' = "EPI_ret"
            /\ frame' = [frame EXCEPT !.push_result = "NEED_MORE_INPUT"]
       ELSE /\ pc' = "EPI_loop"
            /\ UNCHANGED frame
    /\ UNCHANGED <<outside_executor, pipeline, driver, intermediate_chunks, intermediate_states,
                   cached_chunks, final_chunk, in_process_operators,
                   finished_processing, finalized, local_sink_state, push_input,
                   pull_result, interrupted, executor_error, source, build,
                   op_calls, trace>>

\* lines 100-110, and lines 111-123 for a pipeline without operators
ExecutePushInternalLoop ==
    /\ pc = "EPI_loop"
    /\ IF NumOps > 0
       THEN /\ final_chunk' = EmptyChunk
            /\ pc' = "E_entry"
            /\ UNCHANGED <<frame, trace>>
       ELSE /\ SinkAndContinue("NEED_MORE_INPUT")
            /\ UNCHANGED final_chunk
    /\ UNCHANGED <<outside_executor, pipeline, driver, intermediate_chunks, intermediate_states,
                   cached_chunks, in_process_operators, finished_processing,
                   finalized, local_sink_state, push_input, pull_result,
                   interrupted, executor_error, source, build, op_calls>>

\* lines 104-123, after Execute(input, final_chunk, initial_idx) returned
ExecutePushInternalSink ==
    /\ pc = "E_ret"
    /\ pipeline.has_sink
    /\ IF frame.exec_result = "FINISHED"
       THEN /\ pc' = "EPI_ret"
            /\ frame' = [frame EXCEPT !.push_result = "FINISHED"]
            /\ UNCHANGED trace
       ELSE SinkAndContinue(frame.exec_result)
    /\ UNCHANGED <<outside_executor, pipeline, driver, intermediate_chunks, intermediate_states,
                   cached_chunks, final_chunk, in_process_operators,
                   finished_processing, finalized, local_sink_state, push_input,
                   pull_result, interrupted, executor_error, source, build, op_calls>>

(***************************************************************************)
(* void Execute(), lines 73-89.                                            *)
(***************************************************************************)
CallExecute ==
    /\ pc = "idle"
    /\ driver = "Execute"
    /\ ~finalized
    /\ pc' = "X_fetch"
    /\ frame' = [NoFrame EXCEPT !.call = "Execute"]
    /\ UNCHANGED <<outside_executor, pipeline, driver, intermediate_chunks, intermediate_states,
                   cached_chunks, final_chunk, in_process_operators,
                   finished_processing, finalized, local_sink_state, push_input,
                   pull_result, interrupted, executor_error, source, build,
                   op_calls, trace>>

\* lines 77-82: reset the source chunk, fetch, leave the loop or push
ExecuteFetch ==
    /\ pc = "X_fetch"
    /\ IF StartOperatorThrows
       THEN /\ Throw("interrupt")
            /\ intermediate_chunks' =
                  IF NumOps = 0 THEN intermediate_chunks
                  ELSE [intermediate_chunks EXCEPT ![1] = EmptyChunk]
            /\ final_chunk' = IF NumOps = 0 THEN EmptyChunk ELSE final_chunk
            /\ UNCHANGED <<source, trace>>
       ELSE \E chunk \in GetData :
            /\ source' = SourceAfter(chunk)
            /\ trace' = [trace EXCEPT
                           !.get_data = @ + 1,
                           !.after_empty = @ \/ source.exhausted,
                           !.produced = IF chunk = EmptyChunk THEN @ ELSE Append(@, chunk)]
            /\ intermediate_chunks' =
                  IF NumOps = 0 THEN intermediate_chunks
                  ELSE [intermediate_chunks EXCEPT ![1] = chunk]
            /\ final_chunk' = IF NumOps = 0 THEN chunk ELSE final_chunk
            /\ IF Size(chunk) = 0
               THEN /\ pc' = "PF_entry"
                    /\ UNCHANGED frame
               ELSE /\ pc' = "EPI_entry"
                    /\ frame' = [frame EXCEPT !.caller = "Execute", !.input = "source",
                                              !.initial_idx = 0]
    /\ UNCHANGED <<outside_executor, pipeline, driver, intermediate_states, cached_chunks,
                   in_process_operators, finished_processing, finalized,
                   local_sink_state, push_input, pull_result, interrupted,
                   executor_error, build, op_calls>>

\* lines 82-87: ExecutePushInternal returned to the loop
ExecuteNext ==
    /\ pc = "EPI_ret"
    /\ frame.caller = "Execute"
    /\ IF frame.push_result = "FINISHED"
       THEN /\ finished_processing' = TRUE
            /\ pc' = "PF_entry"
       ELSE /\ pc' = "X_fetch"
            /\ UNCHANGED finished_processing
    /\ UNCHANGED <<outside_executor, pipeline, driver, intermediate_chunks, intermediate_states,
                   cached_chunks, final_chunk, in_process_operators, finalized,
                   local_sink_state, push_input, pull_result, frame, interrupted,
                   executor_error, source, build, op_calls, trace>>

(***************************************************************************)
(* OperatorResultType ExecutePush(input), lines 91-93.                     *)
(***************************************************************************)
CallExecutePush ==
    /\ pc = "idle"
    /\ driver = "ExecutePush"
    /\ ~finalized
    /\ frame.push_result # "FINISHED"
    /\ source.fetched < MaxFetch
    /\ \E chunk \in {EmptyChunk} \cup
                    { SourceChunk(source.next_row, shape) : shape \in SourceShapes } :
         /\ push_input' = chunk
         /\ source' = [SourceAfter(chunk) EXCEPT !.exhausted = FALSE]
         /\ trace' = [trace EXCEPT
                        !.produced = IF chunk = EmptyChunk THEN @ ELSE Append(@, chunk)]
    /\ pc' = "EPI_entry"
    /\ frame' = [NoFrame EXCEPT !.call = "ExecutePush", !.caller = "ExecutePush",
                                !.input = "pushed", !.initial_idx = 0]
    /\ UNCHANGED <<outside_executor, pipeline, driver, intermediate_chunks, intermediate_states,
                   cached_chunks, final_chunk, in_process_operators,
                   finished_processing, finalized, local_sink_state, pull_result,
                   interrupted, executor_error, build, op_calls>>

\* line 92: return ExecutePushInternal(input)
ExecutePushReturn ==
    /\ pc = "EPI_ret"
    /\ frame.caller = "ExecutePush"
    /\ pc' = "idle"
    /\ frame' = [NoFrame EXCEPT !.push_result = frame.push_result,
                                !.returned = "ExecutePush"]
    /\ UNCHANGED <<outside_executor, pipeline, driver, intermediate_chunks, intermediate_states,
                   cached_chunks, final_chunk, in_process_operators,
                   finished_processing, finalized, local_sink_state, push_input,
                   pull_result, interrupted, executor_error, source, build,
                   op_calls, trace>>

(***************************************************************************)
(* void PushFinalize(), lines 128-147.                                     *)
(***************************************************************************)
CallPushFinalize ==
    /\ pc = "idle"
    /\ pipeline.has_sink
    /\ pc' = "PF_entry"
    /\ frame' = [NoFrame EXCEPT !.call = "PushFinalize"]
    /\ UNCHANGED <<outside_executor, pipeline, driver, intermediate_chunks, intermediate_states,
                   cached_chunks, final_chunk, in_process_operators,
                   finished_processing, finalized, local_sink_state, push_input,
                   pull_result, interrupted, executor_error, source, build,
                   op_calls, trace>>

\* lines 129-131: the guard of PushFinalize
PushFinalizeRefusedNever == FALSE

PushFinalizeRefusedAlways == TRUE

PushFinalizeRefused == finalized

\* line 134: are the caches left alone
SkipsFlushNever == FALSE

SkipsFlush == finished_processing

PushFinalizeBegin ==
    /\ pc = "PF_entry"
    /\ IF PushFinalizeRefused
       THEN \* InternalException: nothing was changed, the caller sees the error
            /\ pc' = "idle"
            /\ frame' = [NoFrame EXCEPT !.raised = "internal"]
            /\ UNCHANGED <<finalized, build, trace>>
       ELSE /\ finalized' = TRUE
            /\ IF SkipsFlush
               THEN /\ pc' = "PF_combine"
                    /\ UNCHANGED <<frame, build, trace>>
               ELSE LET ok == in_process_operators = <<>> IN
                    \E b \in Builds(ok) :
                      /\ build' = b
                      /\ trace' = IF ok THEN trace
                                  ELSE [trace EXCEPT !.asserted = @ \cup {"PushFinalize"}]
                      /\ IF ~ok /\ b = "debug"
                         THEN Abort
                         ELSE /\ pc' = "PF_loop"
                              /\ frame' = [frame EXCEPT !.flush_idx = 0]
    /\ UNCHANGED <<outside_executor, pipeline, driver, intermediate_chunks, intermediate_states,
                   cached_chunks, final_chunk, in_process_operators,
                   finished_processing, local_sink_state, push_input, pull_result,
                   interrupted, executor_error, source, op_calls>>

\* lines 136-138: one test of the loop over cached_chunks.  The indices the
\* loop visits, from index i on
FlushOrderDescending(i) == NumOps - 1 - i

FlushOrder(i) == i

\* line 137: is cached_chunks[i] flushed
NeedsFlushExceptLast(i) ==
    /\ i + 1 < NumOps
    /\ cached_chunks[i + 1].present
    /\ Size(cached_chunks[i + 1].chunk) > 0

NeedsFlush(i) == cached_chunks[i + 1].present /\ Size(cached_chunks[i + 1].chunk) > 0

PushFinalizeLoop ==
    /\ pc = "PF_loop"
    /\ LET i == FlushOrder(frame.flush_idx) IN
       IF frame.flush_idx >= NumOps
       THEN /\ pc' = "PF_combine"
            /\ UNCHANGED <<frame, trace>>
       ELSE IF NeedsFlush(i)
       THEN \* ExecutePushInternal(*cached_chunks[i], i + 1)
            /\ pc' = "EPI_entry"
            /\ frame' = [frame EXCEPT !.caller = "PushFinalize", !.input = "cache",
                                      !.initial_idx = i + 1]
            /\ trace' = [trace EXCEPT !.flushed = Append(@, i)]
       ELSE /\ pc' = "PF_loop"
            /\ frame' = [frame EXCEPT !.flush_idx = @ + 1]
            /\ UNCHANGED trace
    /\ UNCHANGED <<outside_executor, pipeline, driver, intermediate_chunks, intermediate_states,
                   cached_chunks, final_chunk, in_process_operators,
                   finished_processing, finalized, local_sink_state, push_input,
                   pull_result, interrupted, executor_error, source, build, op_calls>>

\* line 139: cached_chunks[i].reset(), and the loop's i++
PushFinalizeNext ==
    /\ pc = "EPI_ret"
    /\ frame.caller = "PushFinalize"
    /\ cached_chunks' = [cached_chunks EXCEPT ![FlushOrder(frame.flush_idx) + 1] =
                            [present |-> FALSE, chunk |-> EmptyChunk]]
    /\ pc' = "PF_loop"
    /\ frame' = [frame EXCEPT !.flush_idx = @ + 1]
    /\ UNCHANGED <<outside_executor, pipeline, driver, intermediate_chunks, intermediate_states,
                   final_chunk, in_process_operators, finished_processing,
                   finalized, local_sink_state, push_input, pull_result,
                   interrupted, executor_error, source, build, op_calls, trace>>

\* lines 143-146: sink->Combine, local_sink_state.reset()
PushFinalizeCombine ==
    /\ pc = "PF_combine"
    /\ trace' = [trace EXCEPT !.combines = @ + 1]
    /\ local_sink_state' = FALSE
    /\ pc' = "idle"
    /\ frame' = [NoFrame EXCEPT !.returned = frame.call]
    /\ UNCHANGED <<outside_executor, pipeline, driver, intermediate_chunks, intermediate_states,
                   cached_chunks, final_chunk, in_process_operators,
                   finished_processing, finalized, push_input, pull_result,
                   interrupted, executor_error, source, build, op_calls>>

(***************************************************************************)
(* void ExecutePull(result), lines 189-217, and PullFinalize, 219-225.     *)
(***************************************************************************)
CallExecutePull ==
    /\ pc = "idle"
    /\ driver = "ExecutePull"
    /\ ~finalized
    \* the owner stops pulling at the first empty result
    /\ ~(frame.returned = "ExecutePull" /\ pull_result = EmptyChunk)
    /\ pull_result' = EmptyChunk
    /\ pc' = "P_loop"
    /\ frame' = [NoFrame EXCEPT !.call = "ExecutePull", !.input = "source",
                                !.initial_idx = 0]
    /\ UNCHANGED <<outside_executor, pipeline, driver, intermediate_chunks, intermediate_states,
                   cached_chunks, final_chunk, in_process_operators,
                   finished_processing, finalized, local_sink_state, push_input,
                   interrupted, executor_error, source, build, op_calls, trace>>

\* does ExecutePull fetch before it calls Execute (line 195)
MayFetchAlways == TRUE

MayFetch == in_process_operators = <<>>

\* lines 194-205: the loop test and the fetch
ExecutePullLoop ==
    /\ pc \in {"P_loop", "E_ret"}
    /\ ~pipeline.has_sink
    /\ IF Size(pull_result) # 0
       THEN \* the loop ends: return to the caller
            /\ pc' = "idle"
            /\ frame' = [NoFrame EXCEPT !.returned = "ExecutePull"]
            /\ trace' = [trace EXCEPT !.pulled = Append(@, pull_result)]
            /\ UNCHANGED <<intermediate_chunks, pull_result, source>>
       ELSE IF MayFetch
       THEN IF StartOperatorThrows
            THEN /\ Throw("interrupt")
                 /\ intermediate_chunks' =
                       IF NumOps = 0 THEN intermediate_chunks
                       ELSE [intermediate_chunks EXCEPT ![1] = EmptyChunk]
                 /\ UNCHANGED <<pull_result, source, trace>>
            ELSE \E chunk \in GetData :
                 /\ source' = SourceAfter(chunk)
                 /\ trace' = [trace EXCEPT
                                !.get_data = @ + 1,
                                !.after_empty = @ \/ source.exhausted,
                                !.produced = IF chunk = EmptyChunk THEN @
                                             ELSE Append(@, chunk)]
                 /\ intermediate_chunks' =
                       IF NumOps = 0 THEN intermediate_chunks
                       ELSE [intermediate_chunks EXCEPT ![1] = chunk]
                 /\ pull_result' = IF NumOps = 0 THEN chunk ELSE pull_result
                 /\ IF Size(chunk) = 0
                    THEN /\ pc' = "idle"
                         /\ frame' = [NoFrame EXCEPT !.returned = "ExecutePull"]
                    ELSE /\ pc' = IF NumOps = 0 THEN "P_loop" ELSE "E_entry"
                         /\ UNCHANGED frame
       ELSE /\ pc' = IF NumOps = 0 THEN "P_loop" ELSE "E_entry"
            /\ UNCHANGED <<frame, intermediate_chunks, pull_result, source, trace>>
    /\ UNCHANGED <<outside_executor, pipeline, driver, intermediate_states, cached_chunks, final_chunk,
                   in_process_operators, finished_processing, finalized,
                   local_sink_state, push_input, interrupted, executor_error,
                   build, op_calls>>

PullFinalize ==
    /\ pc = "idle"
    /\ ~pipeline.has_sink
    /\ IF finalized
       THEN /\ frame' = [NoFrame EXCEPT !.raised = "internal"]
            /\ UNCHANGED finalized
       ELSE /\ finalized' = TRUE
            /\ frame' = [NoFrame EXCEPT !.returned = "PullFinalize"]
    /\ UNCHANGED <<outside_executor, pipeline, driver, intermediate_chunks, intermediate_states,
                   cached_chunks, final_chunk, in_process_operators,
                   finished_processing, local_sink_state, push_input, pull_result,
                   pc, interrupted, executor_error, source, build, op_calls, trace>>

(***************************************************************************)
(* Other threads.                                                          *)
(***************************************************************************)
\* the client interrupts the query
Interrupt ==
    /\ pc # "dead"
    /\ ~interrupted
    /\ interrupted' = TRUE
    /\ UNCHANGED <<outside_executor, pipeline, driver, intermediate_chunks, intermediate_states,
                   cached_chunks, final_chunk, in_process_operators,
                   finished_processing, finalized, local_sink_state, push_input,
                   pull_result, pc, frame, executor_error, source, build,
                   op_calls, trace>>

\* another worker of the shared executor records a failure
ExecutorError ==
    /\ pc # "dead"
    /\ ~pipeline.has_sink
    /\ ~executor_error
    /\ executor_error' = TRUE
    /\ UNCHANGED <<outside_executor, pipeline, driver, intermediate_chunks, intermediate_states,
                   cached_chunks, final_chunk, in_process_operators,
                   finished_processing, finalized, local_sink_state, push_input,
                   pull_result, pc, frame, interrupted, source, build, op_calls, trace>>

Next ==
    \/ CallExecute
    \/ ExecuteFetch
    \/ ExecuteNext
    \/ CallExecutePush
    \/ ExecutePushReturn
    \/ ExecutePushInternalBegin
    \/ ExecutePushInternalLoop
    \/ ExecutePushInternalSink
    \/ ExecuteBegin
    \/ ExecuteIteration
    \/ CallPushFinalize
    \/ PushFinalizeBegin
    \/ PushFinalizeLoop
    \/ PushFinalizeNext
    \/ PushFinalizeCombine
    \/ CallExecutePull
    \/ ExecutePullLoop
    \/ PullFinalize
    \/ Interrupt
    \/ ExecutorError


(***************************************************************************)
(* CheckpointManager, src/storage/checkpoint_manager.cpp.                  *)
(* A meta-block stream is a chain of blocks of BlockCap words; a word is   *)
(* one value written with Write<T> or one serialized catalog entry.        *)
(***************************************************************************)
\* words a block holds
BlockCap == 4
\* schemas of a catalog
MaxSchemas == 2
\* the header of a database without an image
INVALID_BLOCK == -1

\* the entries of a schema, by number of entries of each kind: sequences,
\* tables, views, macros, scalar functions that are no macros, and whether
\* the table scope holds an entry that is neither a table nor a view
SchemaShapes ==
    { [sequences |-> 0, tables |-> 0, views |-> 0, macros |-> 0, functions |-> 0, other |-> FALSE],
      [sequences |-> 1, tables |-> 1, views |-> 1, macros |-> 1, functions |-> 0, other |-> FALSE],
      [sequences |-> 0, tables |-> 2, views |-> 1, macros |-> 0, functions |-> 0, other |-> FALSE],
      [sequences |-> 2, tables |-> 0, views |-> 0, macros |-> 1, functions |-> 1, other |-> FALSE],
      [sequences |-> 0, tables |-> 1, views |-> 0, macros |-> 0, functions |-> 0, other |-> TRUE] }

\* the name of entry j of a kind in schema i; the name tells schema and kind
KindCode(kind) ==
    CASE kind = "schema" -> 0 [] kind = "sequence" -> 1 [] kind = "table" -> 2
      [] kind = "view" -> 3 [] kind = "macro" -> 4 [] kind = "function" -> 5

EntryName(i, kind, j) == 100 * i + 10 * KindCode(kind) + j

\* table j of schema i holds j rows
TableRows(i, j) == [r \in 1..j |-> 1000 * i + 10 * j + r]

SchemaOf(i, shape) ==
    [ name |-> EntryName(i, "schema", 0),
      sequences |-> [j \in 1..shape.sequences |-> EntryName(i, "sequence", j)],
      tables |-> [j \in 1..shape.tables |->
                     [name |-> EntryName(i, "table", j), rows |-> TableRows(i, j)]],
      views |-> [j \in 1..shape.views |-> EntryName(i, "view", j)],
      macros |-> [j \in 1..shape.macros |-> EntryName(i, "macro", j)],
      functions |-> [j \in 1..shape.functions |-> EntryName(i, "function", j)],
      other |-> shape.other ]

RECURSIVE ShapeSeqs(_)
ShapeSeqs(n) ==
    IF n = 0 THEN { <<>> }
    ELSE ShapeSeqs(n - 1) \cup
         { Append(q, shape) : q \in { q \in ShapeSeqs(n - 1) : Len(q) = n - 1 },
                              shape \in SchemaShapes }

Catalogs == { [i \in DOMAIN q |-> SchemaOf(i, q[i])] : q \in ShapeSeqs(MaxSchemas) }

\* BlockManager: the header's meta_block, the blocks written, the next free id
EmptyStorage == [meta_block |-> INVALID_BLOCK, blocks |-> <<>>, free |-> 0]

\* a closed (null) MetaBlockWriter
NoWriter == [open |-> FALSE, block_id |-> INVALID_BLOCK, data |-> <<>>]

\* the manager's writers and the block manager, as the write functions pass
\* them on; pointers records, per table, the {block_id, offset} written and
\* the tip of the table-data stream when its data was written
Writers(bm, mw, tw, pointers) ==
    [block_manager |-> bm, metadata_writer |-> mw, tabledata_writer |-> tw,
     pointers |-> pointers]

\* MetaBlockWriter(block_manager): opens a writer on a fresh block
NewWriter(bm) ==
    [writer |-> [open |-> TRUE, block_id |-> bm.free, data |-> <<>>],
     block_manager |-> [bm EXCEPT !.free = @ + 1]]

\* block_manager.Write of one block of a chain
StoreBlock(bm, id, data, next) ==
    [bm EXCEPT !.blocks = (id :> [data |-> data, next |-> next]) @@ @]

\* MetaBlockWriter::Write<T>: a value that does not fit goes to a new block,
\* and the full block is written with the new block's id as its successor
WriteWord(w, bm, word) ==
    IF Len(w.data) >= BlockCap
    THEN [writer |-> [w EXCEPT !.block_id = bm.free, !.data = <<word>>],
          block_manager |-> [StoreBlock(bm, w.block_id, w.data, bm.free)
                                EXCEPT !.free = @ + 1]]
    ELSE [writer |-> [w EXCEPT !.data = Append(@, word)], block_manager |-> bm]

\* MetaBlockWriter::Flush: writes the open block if it holds anything
FlushWriter(w, bm) ==
    IF w.data # <<>> THEN StoreBlock(bm, w.block_id, w.data, INVALID_BLOCK) ELSE bm

\* metadata_writer->Write(word); the counts written as uint32_t are far
\* below 2^32 here, so they are written as they are
WriteMeta(st, word) ==
    LET r == WriteWord(st.metadata_writer, st.block_manager, word) IN
    [st EXCEPT !.metadata_writer = r.writer, !.block_manager = r.block_manager]

\* tabledata_writer->Write(word)
WriteTableData(st, word) ==
    LET r == WriteWord(st.tabledata_writer, st.block_manager, word) IN
    [st EXCEPT !.tabledata_writer = r.writer, !.block_manager = r.block_manager]

\* lines 193-195, 179-181, 207-209: entry.Serialize(*metadata_writer)
WriteSequence(st, seq) == WriteMeta(st, seq)
WriteView(st, view) == WriteMeta(st, view)
WriteMacro(st, macro) == WriteMeta(st, macro)

\* TableDataWriter::WriteTableData: the row count and the rows, into the
\* table-data stream
RECURSIVE WriteRows(_, _)
WriteRows(st, rows) ==
    IF rows = <<>> THEN st ELSE WriteRows(WriteTableData(st, Head(rows)), Tail(rows))

TableDataWriter(st, table) == WriteRows(WriteTableData(st, Len(table.rows)), table.rows)

\* the position of the table-data stream
Tip(st) == [block_id |-> st.tabledata_writer.block_id,
            offset |-> Len(st.tabledata_writer.data)]

\* WriteTable, lines 221-231
WriteTablePointerLast(st, table) ==
    LET st1 == WriteMeta(st, table.name)
        st2 == TableDataWriter(st1, table)
        st3 == WriteMeta(st2, st2.tabledata_writer.block_id)
        st4 == WriteMeta(st3, Len(st2.tabledata_writer.data)) IN
    [st4 EXCEPT !.pointers = Append(@, [name |-> table.name, written |-> Tip(st2),
                                         tip |-> Tip(st1)])]

WriteTable(st, table) ==
    LET st1 == WriteMeta(st, table.name)
        st2 == WriteMeta(st1, st1.tabledata_writer.block_id)
        st3 == WriteMeta(st2, Len(st2.tabledata_writer.data))
        st4 == [st3 EXCEPT !.pointers =
                   Append(@, [name |-> table.name,
                              written |-> [block_id |-> st1.tabledata_writer.block_id,
                                           offset |-> Len(st2.tabledata_writer.data)],
                              tip |-> Tip(st3)])] IN
    TableDataWriter(st4, table)

\* the loops of WriteSchema, lines 126-128, 131-133, 136-138, 141-143
RECURSIVE WriteSequences(_, _)
WriteSequences(st, sequences) ==
    IF sequences = <<>> THEN st
    ELSE WriteSequences(WriteSequence(st, Head(sequences)), Tail(sequences))

RECURSIVE WriteTables(_, _)
WriteTables(st, tables) ==
    IF tables = <<>> THEN st
    ELSE WriteTables(WriteTable(st, Head(tables)), Tail(tables))

RECURSIVE WriteViews(_, _)
WriteViews(st, views) ==
    IF views = <<>> THEN st ELSE WriteViews(WriteView(st, Head(views)), Tail(views))

RECURSIVE WriteMacros(_, _)
WriteMacros(st, macros) ==
    IF macros = <<>> THEN st ELSE WriteMacros(WriteMacro(st, Head(macros)), Tail(macros))

\* WriteSchema, lines 99-144, for a schema whose scans do not throw: the
\* scalar functions that are no macros are not written (line 119)
WriteSchema(st, schema) ==
    LET st1 == WriteMeta(st, schema.name)
        st2 == WriteSequences(WriteMeta(st1, Len(schema.sequences)),
                              schema.sequences)
        st3 == WriteTables(WriteMeta(st2, Len(schema.tables)), schema.tables)
        st4 == WriteViews(WriteMeta(st3, Len(schema.views)), schema.views) IN
    WriteMacros(WriteMeta(st4, Len(schema.macros)), schema.macros)

\* MetaBlockReader(buffer_manager, block_id) with its offset set: the words
\* from that position on, following next_block_id from block to block
RECURSIVE StreamFrom(_, _, _)
StreamFrom(blocks, block_id, offset) ==
    IF block_id \notin DOMAIN blocks THEN <<>>
    ELSE SubSeq(blocks[block_id].data, offset + 1, Len(blocks[block_id].data))
            \o StreamFrom(blocks, blocks[block_id].next, 0)

\* a reader: the stream it reads, the words consumed, the entries created in
\* the catalog so far, and whether a read went past the end of the stream
MetaBlockReader(blocks, block_id, offset) ==
    [stream |-> StreamFrom(blocks, block_id, offset), consumed |-> 0,
     creates |-> <<>>, failed |-> FALSE]

\* reader.Read<T>(): the value, and the reader after it
Peek(r) == IF r.consumed < Len(r.stream) THEN r.stream[r.consumed + 1] ELSE 0
Skip(r) == [r EXCEPT !.consumed = @ + 1, !.failed = @ \/ r.consumed >= Len(r.stream)]

Create(r, kind, name, rows) ==
    [r EXCEPT !.creates = Append(@, [create |-> kind, name |-> name, rows |-> rows])]

\* ReadSequence, ReadView, ReadMacro: Deserialize and create
ReadSequence(r) == Create(Skip(r), "sequence", Peek(r), <<>>)
ReadView(r) == Create(Skip(r), "view", Peek(r), <<>>)
ReadMacro(r) == Create(Skip(r), "macro", Peek(r), <<>>)

\* TableDataReader::ReadTableData: the row count and the rows
ReadTableData(table_data_reader) ==
    LET count == Peek(table_data_reader)
        stream == table_data_reader.stream IN
    IF Len(stream) < 1 + count THEN <<"unreadable">>
    ELSE SubSeq(stream, 2, 1 + count)

\* ReadTable, lines 233-251
ReadTable(r, blocks) ==
    LET name == Peek(r)
        r1 == Skip(r)
        block_id == Peek(r1)
        r2 == Skip(r1)
        offset == Peek(r2)
        r3 == Skip(r2) IN
    Create(r3, "table", name, ReadTableData(MetaBlockReader(blocks, block_id, offset)))

\* the loops of ReadSchema, lines 156-158, 161-163, 166-168, 171-173
RECURSIVE ReadSequences(_, _)
ReadSequences(r, count) ==
    IF count = 0 \/ r.failed THEN r ELSE ReadSequences(ReadSequence(r), count - 1)

RECURSIVE ReadTables(_, _, _)
ReadTables(r, count, blocks) ==
    IF count = 0 \/ r.failed THEN r ELSE ReadTables(ReadTable(r, blocks), count - 1, blocks)

RECURSIVE ReadViews(_, _)
ReadViews(r, count) ==
    IF count = 0 \/ r.failed THEN r ELSE ReadViews(ReadView(r), count - 1)

RECURSIVE ReadMacros(_, _)
ReadMacros(r, count) ==
    IF count = 0 \/ r.failed THEN r ELSE ReadMacros(ReadMacro(r), count - 1)

\* ReadSchema, lines 146-174
ReadSchemaViewsFirst(r, blocks) ==
    LET r1 == Create(Skip(r), "schema", Peek(r), <<>>)
        r2 == ReadSequences(Skip(r1), Peek(r1))
        r3 == ReadViews(Skip(r2), Peek(r2))
        r4 == ReadTables(Skip(r3), Peek(r3), blocks) IN
    ReadMacros(Skip(r4), Peek(r4))

ReadSchema(r, blocks) ==
    LET r1 == Create(Skip(r), "schema", Peek(r), <<>>)
        r2 == ReadSequences(Skip(r1), Peek(r1))
        r3 == ReadTables(Skip(r2), Peek(r2), blocks)
        r4 == ReadViews(Skip(r3), Peek(r3)) IN
    ReadMacros(Skip(r4), Peek(r4))

RECURSIVE ReadSchemas(_, _, _)
ReadSchemas(r, count, blocks) ==
    IF count = 0 \/ r.failed THEN r
    ELSE ReadSchemas(ReadSchema(r, blocks), count - 1, blocks)

\* LoadFromStorage, lines 78-94: the reader when the load is over
LoadFromStorage(bm) ==
    IF bm.meta_block < 0
    THEN MetaBlockReader(bm.blocks, INVALID_BLOCK, 0)
    ELSE LET reader == MetaBlockReader(bm.blocks, bm.meta_block, 0) IN
         ReadSchemas(Skip(reader), Peek(reader), bm.blocks)

RECURSIVE WriteSchemas(_, _)
\* the loop of CreateCheckpoint, lines 65-67, over schemas that do not throw
WriteSchemas(st, schemas) ==
    IF schemas = <<>> THEN st
    ELSE WriteSchemas(WriteSchema(st, Head(schemas)), Tail(schemas))

\* the storage after a complete CreateCheckpoint of a catalog, lines 41-76
CheckpointOf(bm, schemas) ==
    LET m == NewWriter(bm)
        t == NewWriter(m.block_manager)
        st0 == Writers(t.block_manager, m.writer, t.writer, <<>>)
        st1 == WriteSchemas(WriteMeta(st0, Len(schemas)), schemas)
        bm1 == FlushWriter(st1.metadata_writer, st1.block_manager)
        bm2 == FlushWriter(st1.tabledata_writer, bm1) IN
    [bm2 EXCEPT !.meta_block = m.writer.block_id]

\* the catalog of the image a database may already hold when it is opened
PreviousCatalog ==
    <<SchemaOf(9, [sequences |-> 1, tables |-> 2, views |-> 1, macros |-> 1,
                   functions |-> 0, other |-> FALSE])>>

\* a CheckpointManager that has not been used, over a given storage
NoCheckpoint(bm) ==
    [ pc |-> "idle",
      meta_block |-> INVALID_BLOCK,  \* the local of CreateCheckpoint, line 55
      schema_idx |-> 0,              \* the loop of line 65
      raised |-> "none",
      pointers |-> <<>>,             \* per table written: pointer and tip
      previous |-> bm,               \* the storage when the manager was made
      loaded |-> MetaBlockReader(<<>>, INVALID_BLOCK, 0) ]  \* LoadFromStorage's reader

\* ColumnDataCollection(buffer_manager, types): count 0, no segments
EmptyCollection == [count |-> 0, segments |-> <<>>]

NoCheckpointManager ==
    /\ catalog = <<>>
    /\ block_manager = EmptyStorage
    /\ metadata_writer = NoWriter
    /\ tabledata_writer = NoWriter
    /\ checkpoint = NoCheckpoint(EmptyStorage)

NoCollections ==
    /\ collections = [a |-> EmptyCollection, b |-> EmptyCollection]
    /\ collection_log = [appends |-> 0, into |-> "none", before |-> collections]

NoExecutor ==
    /\ ExecutorInit
    /\ pipeline = [operators |-> <<>>, has_sink |-> FALSE, sink_order_matters |-> FALSE]

Init == ExecutorInit /\ NoCheckpointManager /\ NoCollections

Spec == Init /\ [][Next]_vars

CheckpointInit ==
    /\ NoExecutor
    /\ NoCollections
    /\ catalog \in Catalogs
    /\ block_manager \in {EmptyStorage, CheckpointOf(EmptyStorage, PreviousCatalog)}
    /\ metadata_writer = NoWriter
    /\ tabledata_writer = NoWriter
    /\ checkpoint = NoCheckpoint(block_manager)

CurrentWriters ==
    Writers(block_manager, metadata_writer, tabledata_writer, checkpoint.pointers)

\* the writers and the block manager after a write function
SetWriters(st) ==
    /\ block_manager' = st.block_manager
    /\ metadata_writer' = st.metadata_writer
    /\ tabledata_writer' = st.tabledata_writer

\* the steps of CreateCheckpoint in the order of lines 65-75
StepAfterHeaderFirst(step) ==
    CASE step = "schemas" -> "header"
      [] step = "header" -> "flush_metadata"
      [] step = "flush_metadata" -> "flush_tabledata"
      [] step = "flush_tabledata" -> "done"

StepAfter(step) ==
    CASE step = "schemas" -> "flush_metadata"
      [] step = "flush_metadata" -> "flush_tabledata"
      [] step = "flush_tabledata" -> "header"
      [] step = "header" -> "done"

\* CreateCheckpoint, lines 41-64: start, open the writers, write the count
CreateCheckpointBegin ==
    /\ checkpoint.pc = "idle"
    /\ ~metadata_writer.open
    /\ LET m == NewWriter(block_manager)
           t == NewWriter(m.block_manager)
           st == WriteMeta(Writers(t.block_manager, m.writer, t.writer, <<>>),
                           Len(catalog)) IN
       /\ SetWriters(st)
       /\ checkpoint' = [checkpoint EXCEPT
                           !.pc = IF catalog = <<>> THEN StepAfter("schemas")
                                  ELSE "schemas",
                           !.meta_block = m.writer.block_id,
                           !.schema_idx = 1]
    /\ UNCHANGED <<vars_executor, collection_vars, catalog>>

\* lines 65-67: WriteSchema for the next schema; the scan of the table scope
\* throws at an entry that is neither a table nor a view (line 111), after
\* the schema itself was serialized (line 101)
CreateCheckpointWriteSchema ==
    /\ checkpoint.pc = "schemas"
    /\ checkpoint.schema_idx <= Len(catalog)
    /\ LET schema == catalog[checkpoint.schema_idx] IN
       IF schema.other
       THEN /\ SetWriters(WriteMeta(CurrentWriters, schema.name))
            /\ checkpoint' = [checkpoint EXCEPT !.pc = "failed",
                                                !.raised = "NotImplemented"]
       ELSE LET st == WriteSchema(CurrentWriters, schema) IN
            /\ SetWriters(st)
            /\ checkpoint' = [checkpoint EXCEPT
                                !.pc = IF checkpoint.schema_idx = Len(catalog)
                                       THEN StepAfter("schemas") ELSE "schemas",
                                !.schema_idx = @ + 1,
                                !.pointers = st.pointers]
    /\ UNCHANGED <<vars_executor, collection_vars, catalog>>

\* line 69: metadata_writer->Flush()
CreateCheckpointFlushMetadata ==
    /\ checkpoint.pc = "flush_metadata"
    /\ block_manager' = FlushWriter(metadata_writer, block_manager)
    /\ checkpoint' = [checkpoint EXCEPT !.pc = StepAfter("flush_metadata")]
    /\ UNCHANGED <<vars_executor, collection_vars, catalog, metadata_writer,
                   tabledata_writer>>

\* line 70: tabledata_writer->Flush()
CreateCheckpointFlushTableData ==
    /\ checkpoint.pc = "flush_tabledata"
    /\ block_manager' = FlushWriter(tabledata_writer, block_manager)
    /\ checkpoint' = [checkpoint EXCEPT !.pc = StepAfter("flush_tabledata")]
    /\ UNCHANGED <<vars_executor, collection_vars, catalog, metadata_writer,
                   tabledata_writer>>

\* lines 73-75: block_manager.WriteHeader(header)
CreateCheckpointWriteHeader ==
    /\ checkpoint.pc = "header"
    /\ block_manager' = [block_manager EXCEPT !.meta_block = checkpoint.meta_block]
    /\ checkpoint' = [checkpoint EXCEPT !.pc = StepAfter("header")]
    /\ UNCHANGED <<vars_executor, collection_vars, catalog, metadata_writer,
                   tabledata_writer>>

\* the process stops inside CreateCheckpoint: what is in memory is lost
Crash ==
    /\ checkpoint.pc \in {"schemas", "flush_metadata", "flush_tabledata", "header"}
    /\ metadata_writer' = NoWriter
    /\ tabledata_writer' = NoWriter
    /\ checkpoint' = [checkpoint EXCEPT !.pc = "crashed"]
    /\ UNCHANGED <<vars_executor, collection_vars, catalog, block_manager>>

\* the database is opened again: LoadFromStorage, lines 78-94
Reopen ==
    /\ checkpoint.pc \in {"done", "crashed", "failed"}
    /\ checkpoint' = [checkpoint EXCEPT !.pc = "loaded",
                                        !.loaded = LoadFromStorage(block_manager)]
    /\ UNCHANGED <<vars_executor, collection_vars, catalog, block_manager,
                   metadata_writer, tabledata_writer>>

CheckpointNext ==
    \/ CreateCheckpointBegin
    \/ CreateCheckpointWriteSchema
    \/ CreateCheckpointFlushMetadata
    \/ CreateCheckpointFlushTableData
    \/ CreateCheckpointWriteHeader
    \/ Crash
    \/ Reopen

CheckpointSpec == CheckpointInit /\ [][CheckpointNext]_vars

(***************************************************************************)
(* ColumnDataCollection, column_data_collection.hpp.  A collection is its  *)
(* count and its ordered segments; a segment is a sequence of chunks.      *)
(***************************************************************************)
\* chunks appended to the two collections together
MaxAppends == 4
\* chunks a segment accommodates before another is created
SegmentChunks == 2
\* rows of an appended chunk
AppendSizes == {1, 2}

RECURSIVE Concat(_)
\* the chunks of a sequence of segments, in order
Concat(segments) ==
    IF segments = <<>> THEN <<>> ELSE Head(segments) \o Concat(Tail(segments))

\* InitializeScan and Scan until the result is empty: the chunks returned
Scan(collection) == Concat(collection.segments)

\* Append(new_chunk): into the last segment, or into a new one (CreateSegment)
CollectionAppended(collection, chunk) ==
    LET n == Len(collection.segments) IN
    [ count |-> collection.count + Size(chunk),
      segments |->
         IF n = 0 \/ Len(collection.segments[n]) >= SegmentChunks
         THEN Append(collection.segments, <<chunk>>)
         ELSE [collection.segments EXCEPT ![n] = Append(@, chunk)] ]

\* Combine(other): this collection afterwards
CombinedKeepingCount(collection, other) ==
    [count |-> collection.count, segments |-> collection.segments \o other.segments]

Combined(collection, other) ==
    [ count |-> collection.count + other.count,
      segments |-> collection.segments \o other.segments ]

Other(which) == IF which = "a" THEN "b" ELSE "a"

CollectionInit ==
    /\ NoExecutor
    /\ NoCheckpointManager
    /\ NoCollections

CollectionAppend ==
    /\ collection_log.appends < MaxAppends
    /\ \E which \in {"a", "b"}, size \in AppendSizes :
         LET first == 10 * collection_log.appends + 1
             chunk == <<[lo |-> first, hi |-> first + size - 1, pass |-> TRUE]>> IN
         /\ collections' = [collections EXCEPT
                              ![which] = CollectionAppended(@, chunk)]
         /\ collection_log' = [appends |-> collection_log.appends + 1,
                               into |-> "none", before |-> collections']
    /\ UNCHANGED <<vars_executor, checkpoint_vars>>

\* into.Combine(other): the segments move over, the other collection is
\* destroyed
CollectionCombine ==
    /\ \E into \in {"a", "b"} :
         /\ collections' = [collections EXCEPT
                              ![into] = Combined(@, collections[Other(into)]),
                              ![Other(into)] = EmptyCollection]
         /\ collection_log' = [collection_log EXCEPT !.into = into,
                                                     !.before = collections]
    /\ UNCHANGED <<vars_executor, checkpoint_vars>>

\* Reset(): destroys all segments
CollectionReset ==
    /\ \E which \in {"a", "b"} :
         /\ collections[which].count > 0
         /\ collections' = [collections EXCEPT ![which] = EmptyCollection]
         /\ collection_log' = [collection_log EXCEPT !.into = "none",
                                                     !.before = collections']
    /\ UNCHANGED <<vars_executor, checkpoint_vars>>

CollectionNext ==
    \/ CollectionAppend
    \/ CollectionCombine
    \/ CollectionReset

CollectionSpec == CollectionInit /\ [][CollectionNext]_vars

(***************************************************************************)
(* A pipeline with a sink run by Execute(): the owner calls Execute(), the *)
(* thread that runs it takes its steps one after the other, and the client *)
(* may interrupt the query.                                                *)
(***************************************************************************)
ExecuteInit == Init /\ driver = "Execute"

\* the steps of the thread inside Execute(), lines 73-89 and what they call
ExecuteThread ==
    \/ ExecuteFetch
    \/ ExecuteNext
    \/ ExecutePushInternalBegin
    \/ ExecutePushInternalLoop
    \/ ExecutePushInternalSink
    \/ ExecuteBegin
    \/ ExecuteIteration
    \/ PushFinalizeBegin
    \/ PushFinalizeLoop
    \/ PushFinalizeNext
    \/ PushFinalizeCombine

ExecuteRunNext ==
    \/ CallExecute
    \/ ExecuteThread
    \/ Interrupt

\* a thread that is inside Execute() goes on running
ExecuteSpec == ExecuteInit /\ [][ExecuteRunNext]_vars /\ WF_vars(ExecuteThread)

(***************************************************************************)
(* Properties.                                                             *)
(***************************************************************************)
RECURSIVE SumSizes(_)
SumSizes(chunks) ==
    IF chunks = <<>> THEN 0 ELSE Size(Head(chunks)) + SumSizes(Tail(chunks))

\* the rows the operators of a chain let through, in order
RECURSIVE Through(_, _)
Through(operators, chunk) ==
    IF operators = <<>> THEN chunk
    ELSE Through(Tail(operators),
                 IF Head(operators).kind = "filter" THEN PassingRows(chunk) ELSE chunk)

\* the rows of a chunk are in the order the source produced them
Ascending(chunk) == \A j \in 1..(Len(chunk) - 1) : chunk[j].hi < chunk[j + 1].lo

StrictlyIncreasing(stack) == \A j \in 1..(Len(stack) - 1) : stack[j] < stack[j + 1]

\* Execute() has returned / PushFinalize has returned (by itself or in Execute())
ExecuteReturned == pc = "idle" /\ frame.returned = "Execute"
PushFinalizeReturned == pc = "idle" /\ frame.returned \in {"Execute", "PushFinalize"}
HasCache == \E i \in 1..NumOps : AllocatesCache(pipeline, i)

\* C1: in push mode with cache slots allocated, when Execute() has returned
\* and no operator and no sink returned FINISHED, the rows passed to
\* sink.Sink are exactly the rows the source produced as the operators let
\* them through, each exactly once.
C1_CachePreservesRows ==
    (ExecuteReturned /\ HasCache /\ ~trace.finished_seen) =>
        /\ Rows(Flatten(trace.sunk))
              = Rows(Through(pipeline.operators, Flatten(trace.produced)))
        /\ SumSizes(trace.sunk) = Cardinality(Rows(Flatten(trace.sunk)))

\* a run of Execute() in which a cache filled up and was forwarded and
\* another cache was flushed by PushFinalize
C1_Witness ==
    /\ ExecuteReturned /\ HasCache /\ ~trace.finished_seen
    /\ trace.flushed # <<>>
    /\ \E j \in DOMAIN trace.sunk :
          Size(trace.sunk[j]) >= STANDARD_VECTOR_SIZE - CACHE_THRESHOLD
          /\ Len(trace.sunk[j]) > 1

\* C2: an operator that returned HAVE_MORE_OUTPUT is re-entered against the
\* same prev_chunk, an operator that returned NEED_MORE_INPUT is not invoked
\* on that input again, and no operator is left with pending output when
\* Execute() returns without FINISHED.
C2_ReentersSameInput ==
    /\ trace.reentry = {}
    /\ (ExecuteReturned /\ ~trace.finished_seen) =>
          \A c \in DOMAIN op_calls : ~op_calls[c].pending

\* C3: at every return of Execute(input, result, initial_idx), ExecutePush
\* and ExecutePull and at every entry of PushFinalize the stack is strictly
\* increasing with entries >= initial_idx; at the entry of PushFinalize it
\* is empty.
C3_StackDiscipline ==
    /\ (\/ pc \in {"E_ret", "EPI_ret", "PF_entry"}
        \/ (pc = "idle" /\ frame.returned \in {"ExecutePush", "ExecutePull"}))
       => /\ StrictlyIncreasing(in_process_operators)
          /\ \A j \in DOMAIN in_process_operators :
                in_process_operators[j] >= frame.initial_idx
    /\ pc = "PF_entry" => in_process_operators = <<>>

\* everything a finalize could change, apart from the error it reports
FinalizeState ==
    <<cached_chunks, intermediate_chunks, intermediate_states, final_chunk,
      in_process_operators, finished_processing, finalized, local_sink_state,
      source, op_calls, trace>>

\* C4: finalized never reverts to false, and a PushFinalize or PullFinalize
\* entered when finalized is already true raises an internal error and
\* changes nothing: no flush, no Sink, no Combine.
C4_FinalizeOnce ==
    [][/\ finalized => finalized'
       /\ (pc = "PF_entry" /\ finalized /\ pc' # pc) =>
             /\ pc' = "idle" /\ frame'.raised = "internal"
             /\ UNCHANGED FinalizeState
       /\ (pc = "idle" /\ ~pipeline.has_sink /\ finalized /\ frame' # frame) =>
             /\ pc' = "idle" /\ frame'.raised = "internal"
             /\ UNCHANGED FinalizeState]_vars

\* PushFinalize was called after Execute() had finalized and combined, and
\* was refused
C4_Witness ==
    /\ driver = "Execute" /\ pc = "idle" /\ frame.raised = "internal"
    /\ finalized /\ trace.combines = 1

\* C5 as stated: after PushFinalize returns no cache slot retains rows.
C5_NoCacheRetainsRows ==
    PushFinalizeReturned => \A i \in 1..NumOps :
            cached_chunks[i].present => Size(cached_chunks[i].chunk) = 0

\* C5, amended: after PushFinalize returns, provided no operator and no sink
\* has returned FINISHED on this executor, no cache slot retains rows.
C5_NoCacheRetainsRowsUnlessFinished ==
    (PushFinalizeReturned /\ ~trace.finished_seen) =>
        \A i \in 1..NumOps :
            cached_chunks[i].present => Size(cached_chunks[i].chunk) = 0

\* PushFinalize returned after flushing a cache, and no FINISHED was seen
C5_Witness ==
    /\ PushFinalizeReturned /\ ~trace.finished_seen
    /\ trace.flushed # <<>>
    /\ \A i \in 1..NumOps :
            cached_chunks[i].present => Size(cached_chunks[i].chunk) = 0

\* C6: when a push (from Execute()'s loop or from ExecutePush) has returned
\* FINISHED, finished_processing is true.
C6_FinishedSetsFlag ==
    /\ (pc = "idle" /\ frame.returned = "ExecutePush"
           /\ frame.push_result = "FINISHED") => finished_processing
    /\ (pc = "PF_entry" /\ frame.call = "Execute"
           /\ frame.push_result = "FINISHED") => finished_processing

\* C7: Combine is called at most once and exactly once by the time
\* PushFinalize has returned; the caches are flushed in increasing index,
\* a cache the loop passes over is absent or empty, every flush precedes
\* Combine, and no Sink or operator Execute follows Combine.
C7_FlushThenCombine ==
    /\ [](/\ trace.combines <= 1
          /\ PushFinalizeReturned => trace.combines = 1
          /\ StrictlyIncreasing(trace.flushed)
          /\ (pc = "PF_loop" \/ frame.caller = "PushFinalize") => trace.combines = 0
          /\ ~trace.after_combine)
    /\ [][(pc = "PF_loop" /\ pc' = "PF_loop"
             /\ frame'.flush_idx = frame.flush_idx + 1) =>
                (cached_chunks[frame.flush_idx + 1].present =>
                    Size(cached_chunks[frame.flush_idx + 1].chunk) = 0)]_vars

\* PushFinalize of a run that had not finished flushed two caches and then
\* combined
C7_Witness ==
    /\ PushFinalizeReturned /\ ~finished_processing
    /\ Len(trace.flushed) = 2 /\ trace.combines = 1

\* C8: with no operators and a sink, what Execute() has passed to Sink is
\* always the chunks fetched so far, unchanged and in order, short of at
\* most the last one; all of them once Execute() has returned without
\* FINISHED; and GetData is never called after it returned an empty chunk.
C8_SourceToSink ==
    (NumOps = 0 /\ driver = "Execute") =>
        /\ Len(trace.sunk) <= Len(trace.produced)
        /\ Len(trace.produced) <= Len(trace.sunk) + 1
        /\ trace.sunk = SubSeq(trace.produced, 1, Len(trace.sunk))
        /\ (ExecuteReturned /\ ~trace.finished_seen) =>
              trace.sunk = trace.produced /\ source.exhausted
        /\ ~trace.after_empty

\* Execute() returned after passing two source chunks to the sink
C8_Witness ==
    /\ NumOps = 0 /\ ExecuteReturned /\ ~trace.finished_seen
    /\ Len(trace.sunk) = 2 /\ trace.sunk = trace.produced

\* the type ids that occur anywhere in a type
RECURSIVE TypeIds(_)
TypeIds(type) ==
    {type.id} \cup UNION { TypeIds(type.children[j]) : j \in DOMAIN type.children }

\* the rows delivered so far, to the sink or to the caller of ExecutePull
Delivered == Flatten(IF pipeline.has_sink THEN trace.sunk ELSE trace.pulled)

\* C9: a cache slot exists only in a pipeline with a sink that does not
\* declare order, for an operator that requires a cache and whose output
\* types contain no LIST and no MAP at any depth; when the sink declares
\* order, or in pull mode, the rows are delivered in the order the source
\* and the operators produced them, and once the input is used up without
\* FINISHED they are exactly the produced rows in that order.
C9_CacheOnlyWhenOrderFree ==
    /\ \A i \in 1..NumOps :
          cached_chunks[i].present =>
             /\ pipeline.has_sink /\ ~pipeline.sink_order_matters
             /\ pipeline.operators[i].requires_cache
             /\ \A j \in DOMAIN pipeline.operators[i].types :
                   TypeIds(pipeline.operators[i].types[j]) \cap {"LIST", "MAP"} = {}
    /\ (pipeline.sink_order_matters \/ ~pipeline.has_sink) =>
          /\ Ascending(Delivered)
          /\ ((\/ ExecuteReturned
               \/ pc = "idle" /\ frame.returned = "ExecutePull"
                    /\ pull_result = EmptyChunk)
              /\ ~trace.finished_seen) =>
                Delivered = Through(pipeline.operators, Flatten(trace.produced))

\* an order-declaring sink received the rows of two source chunks through an
\* operator that asks for a cache, split in pieces
C9_Witness ==
    /\ pipeline.has_sink /\ pipeline.sink_order_matters
    /\ \E i \in 1..NumOps : pipeline.operators[i].requires_cache
    /\ ExecuteReturned /\ ~trace.finished_seen
    /\ Len(trace.produced) = 2 /\ Len(trace.sunk) > 2

\* the calls the executor has made to the source, the operators and the sink
Calls == <<trace.get_data, trace.executes, Len(trace.sunk)>>

\* C10 as stated: once interrupted is true no GetData, Execute or Sink is
\* called, the next span entry ends the call, and the error that leaves
\* Execute, ExecutePush or ExecutePull is the interrupt error.
C10_InterruptPropagates ==
    /\ [][interrupted => Calls' = Calls]_vars
    /\ [][(interrupted /\ pc \in {"X_fetch", "E_loop"} /\ pc' # pc) =>
             pc' = "dead"]_vars
    /\ [](frame.raised \in {"interrupt", "executor"} =>
             (interrupted /\ frame.raised = "interrupt"))

\* C10, amended: once interrupted is true no GetData, Execute or Sink is
\* called and the next span entry ends the call with an error; that error
\* is the interrupt error, except in ExecutePull when the shared executor
\* has recorded an error, which is raised in its place.
C10_InterruptOrExecutorError ==
    /\ [][interrupted => Calls' = Calls]_vars
    /\ [][(interrupted /\ pc \in {"X_fetch", "E_loop"} /\ pc' # pc) =>
             pc' = "dead"]_vars
    /\ [](frame.raised \in {"interrupt", "executor"} =>
             /\ interrupted /\ pc = "dead"
             /\ frame.raised = "executor"
                   <=> (frame.call = "ExecutePull" /\ executor_error))

\* an interrupt that arrived after operators had run ended ExecutePull with
\* the executor's error
C10_Witness ==
    /\ pc = "dead" /\ interrupted /\ frame.raised = "executor"
    /\ trace.executes > 0

\* the Create calls a catalog asks for: per schema the schema, then its
\* sequences, tables, views and macros
Creates(kind, names) ==
    [j \in DOMAIN names |-> [create |-> kind, name |-> names[j], rows |-> <<>>]]

RECURSIVE Expected(_)
Expected(schemas) ==
    IF schemas = <<>> THEN <<>>
    ELSE LET schema == Head(schemas) IN
         <<[create |-> "schema", name |-> schema.name, rows |-> <<>>]>>
            \o Creates("sequence", schema.sequences)
            \o [j \in DOMAIN schema.tables |->
                   [create |-> "table", name |-> schema.tables[j].name,
                    rows |-> schema.tables[j].rows]]
            \o Creates("view", schema.views)
            \o Creates("macro", schema.macros)
            \o Expected(Tail(schemas))

\* CreateCheckpoint ran to its end and the database was opened again
CheckpointReloaded ==
    /\ checkpoint.pc = "loaded"
    /\ checkpoint.meta_block # INVALID_BLOCK
    /\ block_manager.meta_block = checkpoint.meta_block

\* C11: LoadFromStorage on the image of a completed CreateCheckpoint reads
\* the whole metadata stream, no more and no less, and makes exactly the
\* Create calls of the catalog that was written: schema by schema, the
\* sequences, the tables with their rows, the views, the macros.
C11_LoadMirrorsCheckpoint ==
    CheckpointReloaded =>
        /\ ~checkpoint.loaded.failed
        /\ checkpoint.loaded.consumed = Len(checkpoint.loaded.stream)
        /\ checkpoint.loaded.creates = Expected(catalog)

\* a catalog of two schemas with sequences, tables, views and macros, whose
\* metadata spans several blocks, was written and read back
C11_Witness ==
    /\ CheckpointReloaded
    /\ Len(catalog) = 2
    /\ catalog[1].tables # <<>> /\ catalog[1].views # <<>>
    /\ catalog[2].sequences # <<>> /\ catalog[2].macros # <<>>
    /\ checkpoint.loaded.consumed > BlockCap
    /\ checkpoint.loaded.creates = Expected(catalog)

\* everything CreateCheckpoint holds in memory is on disk
Flushed ==
    /\ FlushWriter(metadata_writer, block_manager) = block_manager
    /\ FlushWriter(tabledata_writer, block_manager) = block_manager

\* C12: the header changes only in the last step of CreateCheckpoint, when
\* every schema is written and both streams are flushed, and then names the
\* first metadata block; until then, whether CreateCheckpoint is running,
\* has crashed or has failed with NotImplemented, the header names the
\* previous image, whose blocks are unchanged and which loads as before.
C12_HeaderIsCommitPoint ==
    /\ [](IF block_manager.meta_block # checkpoint.previous.meta_block
          THEN /\ checkpoint.pc \in {"done", "loaded"}
               /\ checkpoint.schema_idx > Len(catalog)
               /\ Flushed
               /\ block_manager.meta_block = checkpoint.meta_block
          ELSE /\ \A id \in DOMAIN checkpoint.previous.blocks :
                     /\ id \in DOMAIN block_manager.blocks
                     /\ block_manager.blocks[id] = checkpoint.previous.blocks[id]
               /\ LoadFromStorage(block_manager) = LoadFromStorage(checkpoint.previous))
    /\ [][block_manager'.meta_block # block_manager.meta_block =>
             checkpoint.pc = "header" /\ checkpoint'.pc = "done"]_vars

\* a CreateCheckpoint over an existing image stopped after writing new
\* blocks; on opening the database the previous catalog is loaded
C12_Witness ==
    /\ checkpoint.pc = "loaded"
    /\ checkpoint.previous.meta_block # INVALID_BLOCK
    /\ block_manager.meta_block = checkpoint.previous.meta_block
    /\ DOMAIN block_manager.blocks # DOMAIN checkpoint.previous.blocks
    /\ checkpoint.loaded.creates = Expected(PreviousCatalog)

\* C13: after into.Combine(other) a scan of the target gives its chunks
\* followed by the other's, in their order; its count is the sum of the two
\* counts; the other collection has count 0 and no segments; and if the
\* other collection was empty the target is as it was.
C13_CombineConcatenates ==
    collection_log.into # "none" =>
        LET before == collection_log.before
            target == collections[collection_log.into]
            other == collections[Other(collection_log.into)]
            target_before == before[collection_log.into]
            other_before == before[Other(collection_log.into)] IN
        /\ Scan(target) = Scan(target_before) \o Scan(other_before)
        /\ target.count = target_before.count + other_before.count
        /\ target.count = Size(Flatten(Scan(target)))
        /\ other.count = 0 /\ other.segments = <<>>
        /\ other_before = EmptyCollection => target = target_before

\* two collections of several chunks each were combined
C13_Witness ==
    /\ collection_log.into = "a"
    /\ Len(Scan(collection_log.before.a)) >= 2
    /\ Len(Scan(collection_log.before.b)) >= 2
    /\ Len(collections.a.segments) >= 2
    /\ collections.a.count >= 5

\* C14: whenever Execute(input, result, initial_idx) returns a value other
\* than FINISHED, the value is HAVE_MORE_OUTPUT if in_process_operators is
\* non-empty at that moment and NEED_MORE_INPUT if it is empty, on every
\* return path.
C14_ReturnTellsPending ==
    pc = "E_ret" /\ frame.exec_result # "FINISHED" =>
        frame.exec_result =
            IF in_process_operators # <<>> THEN "HAVE_MORE_OUTPUT" ELSE "NEED_MORE_INPUT"

\* PushFinalize is flushing a cache: ExecutePushInternal(*cached_chunks[i], i + 1)
Flushing == frame.caller = "PushFinalize" /\ frame.input = "cache"

\* C15: while PushFinalize flushes the cache of operator i (initial_idx =
\* i + 1) only operators after i are invoked (operators 0..i never are), and
\* the cache of the last operator is passed to the sink as it is, without
\* any operator being invoked.
C15_FlushRunsDownstreamOnly ==
    [][Flushing =>
         /\ trace'.executes # trace.executes => frame.current_idx > frame.initial_idx
         /\ trace'.sunk # trace.sunk /\ frame.initial_idx = NumOps =>
              /\ trace'.sunk = Append(trace.sunk, cached_chunks[NumOps].chunk)
              /\ trace'.executes = trace.executes
              /\ op_calls' = op_calls]_vars

\* C16: if finished_processing is true when PushFinalize runs, it invokes no
\* operator and no sink.Sink and leaves every cached chunk as it was; it
\* goes straight to sink.Combine and the release of the local sink state.
C16_FinishedSkipsFlush ==
    [][finished_processing /\ pc \in {"PF_entry", "PF_combine"} =>
         /\ cached_chunks' = cached_chunks
         /\ trace'.executes = trace.executes
         /\ trace'.sunk = trace.sunk
         /\ in_process_operators' = in_process_operators
         /\ pc' \in {pc, "PF_combine", "idle"}
         /\ pc = "PF_combine" /\ pc' = "idle" =>
              /\ trace'.combines = trace.combines + 1
              /\ ~local_sink_state']_vars

\* PushFinalize returned after the sink finished, and rows stayed in a cache
C16_Witness ==
    /\ PushFinalizeReturned
    /\ finished_processing
    /\ trace.combines = 1
    /\ ~local_sink_state
    /\ \E i \in 1..NumOps : cached_chunks[i].present /\ Size(cached_chunks[i].chunk) > 0

\* C17: for a pipeline whose last operator has a cache slot, as long as
\* every input of that operator had at least CACHE_THRESHOLD rows and every
\* output fewer, the operator forwards nothing or the whole cache of at
\* least STANDARD_VECTOR_SIZE - CACHE_THRESHOLD rows, and every chunk passed
\* to sink.Sink outside the flush of PushFinalize has at least that many rows.
C17_SunkChunksAreLarge ==
    [][/\ NumOps > 0
       /\ ~Flushing
       /\ trace'.absorbing
       => /\ trace'.sunk # trace.sunk /\ cached_chunks[NumOps].present =>
               Size(trace'.sunk[Len(trace'.sunk)]) >= STANDARD_VECTOR_SIZE - CACHE_THRESHOLD
          /\ /\ trace'.executes # trace.executes
             /\ frame.current_idx = NumOps
             /\ cached_chunks[NumOps].present
             /\ pipeline.has_sink
             => \/ final_chunk' = EmptyChunk
                \/ /\ Size(final_chunk') >= STANDARD_VECTOR_SIZE - CACHE_THRESHOLD
                   /\ cached_chunks'[NumOps].chunk = EmptyChunk]_vars

\* small outputs of the last operator were absorbed, a chunk was passed to
\* the sink and the cache holds rows again
C17_Witness ==
    /\ pc = "idle"
    /\ NumOps > 0
    /\ trace.absorbing
    /\ trace.flushed = <<>>
    /\ trace.combines = 0
    /\ trace.sunk # <<>>
    /\ cached_chunks[NumOps].present
    /\ Size(cached_chunks[NumOps].chunk) > 0
    /\ op_calls[NumOps].input # EmptyChunk

\* C18: ExecutePull fetches from the source, and so overwrites the source
\* chunk, only when in_process_operators is empty and no operator has
\* pending output for that chunk; and it returns with an empty result only
\* in the step in which the source returned an empty chunk.
C18_PullFetchesWhenDrained ==
    [][frame.call = "ExecutePull" =>
         /\ trace'.get_data # trace.get_data =>
              /\ in_process_operators = <<>>
              /\ \A c \in 1..NumOps : ~op_calls[c].pending
         /\ NumOps > 0 /\ intermediate_chunks'[1] # intermediate_chunks[1] =>
              /\ in_process_operators = <<>>
              /\ ~op_calls[1].pending
         /\ pc' = "idle" /\ frame'.returned = "ExecutePull" /\ pull_result' = EmptyChunk =>
              /\ trace'.get_data = trace.get_data + 1
              /\ trace'.produced = trace.produced
              /\ source'.exhausted]_vars

\* one source chunk was pulled in several pieces, without a fetch in
\* between, and the last pull returned empty from an exhausted source
C18_Witness ==
    /\ pc = "idle"
    /\ frame.returned = "ExecutePull"
    /\ pull_result = EmptyChunk
    /\ source.exhausted
    /\ Len(trace.pulled) > Len(trace.produced)
    /\ Len(trace.produced) >= 2

\* the tables of the catalog, and the rows of the table of a given name
CatalogTables ==
    UNION { { catalog[i].tables[j] : j \in DOMAIN catalog[i].tables } : i \in DOMAIN catalog }
RowsOf(name) == (CHOOSE table \in CatalogTables : table.name = name).rows
IsTable(created) == created.create = "table"

\* C19: for every table a checkpoint writes, the {block_id, offset} stored in
\* the metadata stream is the position of the table-data stream just before
\* that table's data; once the checkpoint is complete, reading table data at
\* that position gives that table's rows, and the tables LoadFromStorage
\* creates are, in order, the tables written, each with the rows read at its
\* own pointer.
C19_PointerIsTipBeforeData ==
    LET pointers == checkpoint.pointers
        ReadAt(pointer) ==
            ReadTableData(MetaBlockReader(block_manager.blocks,
                                          pointer.block_id, pointer.offset)) IN
    /\ \A k \in DOMAIN pointers : pointers[k].written = pointers[k].tip
    /\ checkpoint.pc = "done" \/ CheckpointReloaded =>
          \A k \in DOMAIN pointers : ReadAt(pointers[k].written) = RowsOf(pointers[k].name)
    /\ CheckpointReloaded =>
          SelectSeq(checkpoint.loaded.creates, IsTable) =
             [k \in DOMAIN pointers |->
                 [create |-> "table", name |-> pointers[k].name,
                  rows |-> ReadAt(pointers[k].written)]]

\* three tables were written and read back; two of them start in the same
\* block of the table-data stream, one of these not at the block's start
C19_Witness ==
    /\ CheckpointReloaded
    /\ Len(checkpoint.pointers) >= 3
    /\ \E k, l \in DOMAIN checkpoint.pointers :
         /\ k < l
         /\ checkpoint.pointers[k].written.block_id = checkpoint.pointers[l].written.block_id
         /\ checkpoint.pointers[l].written.offset > 0
    /\ \E k, l \in DOMAIN checkpoint.pointers :
         checkpoint.pointers[k].written.block_id # checkpoint.pointers[l].written.block_id

\* C20: sink.Sink is never invoked with an empty chunk, whether from
\* Execute(), from ExecutePush or from the cache flush of PushFinalize; an
\* output that a cache absorbed entirely is not passed to the sink.
C20_SinkGetsRows ==
    /\ [](\A j \in DOMAIN trace.sunk : Size(trace.sunk[j]) > 0)
    /\ [][/\ pc \in {"E_ret", "EPI_entry", "EPI_loop"}
          /\ Size(IF NumOps = 0 \/ pc = "EPI_entry" THEN InputChunk ELSE final_chunk) = 0
          => trace'.sunk = trace.sunk]_vars

\* a push returned with all of the operators' output absorbed by a cache,
\* after an earlier chunk had been passed to the sink
C20_Witness ==
    /\ pc = "EPI_ret"
    /\ frame.push_result = "NEED_MORE_INPUT"
    /\ ~Flushing
    /\ final_chunk = EmptyChunk
    /\ trace.sunk # <<>>
    /\ \E i \in 1..NumOps : cached_chunks[i].present /\ Size(cached_chunks[i].chunk) > 0

\* C21: between operator invocations every allocated cache holds fewer than
\* STANDARD_VECTOR_SIZE - CACHE_THRESHOLD rows, and an append of an operator's
\* output to its cache never gives more than STANDARD_VECTOR_SIZE rows: the
\* rows are either all in the cache afterwards or all in the chunk the
\* operator forwards, which leaves the cache empty.
C21_CacheStaysSmall ==
    /\ [](\A i \in 1..NumOps :
            cached_chunks[i].present =>
               Size(cached_chunks[i].chunk) < STANDARD_VECTOR_SIZE - CACHE_THRESHOLD)
    /\ [][LET c == frame.current_idx
              forwarded == IF c >= NumOps THEN ResultChunk' ELSE intermediate_chunks'[c + 1]
          IN
          /\ trace'.executes # trace.executes
          /\ cached_chunks'[c] # cached_chunks[c]
          => /\ Size(cached_chunks'[c].chunk) + Size(forwarded) <= STANDARD_VECTOR_SIZE
             /\ \/ forwarded = EmptyChunk
                \/ cached_chunks'[c].chunk = EmptyChunk]_vars

\* a cache was filled and forwarded as a whole, and holds rows again
C21_Witness ==
    /\ \E i \in 1..NumOps :
         cached_chunks[i].present /\ Size(cached_chunks[i].chunk) > 0
    /\ \E j \in DOMAIN trace.sunk :
         /\ Size(trace.sunk[j]) > STANDARD_VECTOR_SIZE - CACHE_THRESHOLD
         /\ Size(trace.sunk[j]) < STANDARD_VECTOR_SIZE

\* C22: once sink.Sink has returned FINISHED the executor does not call
\* sink.Sink again, neither in the call in progress nor in a later
\* ExecutePush nor in the flush of PushFinalize.
C22_NoSinkAfterFinished ==
    [][trace.sink_finished => trace'.sunk = trace.sunk]_vars

\* C23: Execute() in push mode terminates: unless an exception is raised, a
\* call in progress comes to its return with PushFinalize done and
\* sink.Combine called exactly once, whether the loop ended by an empty
\* source chunk or by a FINISHED result; sink.Combine is never called twice.
C23_ExecuteTerminates ==
    /\ [](trace.combines <= 1)
    /\ (frame.call = "Execute" /\ pc # "idle")
          ~> \/ frame.raised = "interrupt"
             \/ /\ ExecuteReturned
                /\ finalized
                /\ ~local_sink_state
                /\ trace.combines = 1

\* Execute() returned after several source chunks, with operators that had
\* more output, outputs absorbed by a cache and a cache flushed at the end
C23_Witness ==
    /\ ExecuteReturned
    /\ trace.combines = 1
    /\ ~interrupted
    /\ Len(trace.produced) >= 2
    /\ trace.flushed # <<>>
    /\ trace.executes > Len(trace.produced) * NumOps

====
